---- MODULE Spec2Model ----
(***************************************************************************)
(* A model of the mock clock of blugnu/time: the clock's virtual time, its *)
(* registry of timers and tickers (active / inactive lists), the advance   *)
(* algorithm of AdvanceTo / AdvanceBy, and the detached goroutines that    *)
(* timer.tick and ticker.tick start to deliver a tick.                     *)
(*                                                                         *)
(* Time is an integer number of time units; the epoch is 0.  The clock is  *)
(* driven by one goroutine that calls the API in sequence, as the tests of *)
(* the package do; the goroutines started by a tick run on their own, and  *)
(* Now() may be called by anyone at any time.  An advance is a sequence of *)
(* steps, one per critical section of AdvanceTo, so that the delivery      *)
(* goroutines interleave with it exactly where the code allows it.         *)
(* time.Sleep(yield) synchronises nothing and is not a step: whatever may  *)
(* run during the sleep may run between two steps.                         *)
(***************************************************************************)
EXTENDS Integers, Sequences, FiniteSets, TLC

\* ------------------------------------------------------------------ bounds
MaxTickables == 2      \* timers and tickers created in one run
MaxTime == 1           \* latest target of an advance
MaxDur == 2            \* longest duration handed to the API
MaxPending == 1        \* delivery goroutines started and not yet run
MaxElapsed == 1        \* real time units passed since the last sync
MaxBack == 1           \* how far before the epoch a next tick time may be set
MaxCalls == 4          \* calls the driving goroutine makes
MaxFar == 2            \* latest target of an advance when nothing is stopped or reset
MaxCtx == 2            \* deadline contexts created in one run

Ids == 0 .. (MaxTickables - 1)
Durations == (0 - 1) .. MaxDur          \* d of NewTimer / Timer.Reset / AdvanceBy
TickerDurations == 0 .. MaxDur          \* d of NewTicker / Ticker.Reset
Targets == 0 .. MaxTime                 \* t of AdvanceTo
FarTargets == 0 .. MaxFar               \* t of AdvanceTo, channels never read
CtxIds == 0 .. (MaxCtx - 1)
Deadlines == 0 .. (MaxTime + 1)         \* deadline of ContextWithDeadlineCause

\* -------------------------------------------------------- program constants
Epoch == 0                               \* time.Unix(0, 0)
tsActive == "active"
tsExpired == "expired"
tsStopped == "stopped"
ErrNotADelorean == "ErrNotADelorean"
ErrClockIsRunning == "ErrClockIsRunning"
ErrClockNotRunning == "ErrClockNotRunning"
errNonPositiveInterval == "errNonPositiveInterval"
errClockLocked == "errClockLocked"
errInvalidTransition == "errInvalidTransition"
NoErr == "ok"
Nil == "nil"                             \* the nil error
DeadlineExceeded == "context.DeadlineExceeded"
Canceled == "context.Canceled"
NoCause == "no cause"                    \* a nil cause
Causes == {NoCause, "cause"}

VARIABLES
    now,            \* mockClock.now
    nStopped,       \* mockClock.nStopped
    dropsTicks,     \* mockClock.dropsTicks
    elapsed,        \* time.Since(mockClock.updated): real time since the last sync
    active,         \* mockClock.tickers.active   (sequence of ids)
    inactive,       \* mockClock.tickers.inactive (sequence of ids)
    tk,             \* the timer / ticker structs, by id
    nextTickerId,   \* mockClock.nextTickerId
    pending,        \* delivery goroutines started by tick and not yet run
    pc,             \* position of the goroutine that drives the advance
    target,         \* the t of the advance in progress
    last,           \* history: the last call or step and its outcome
    calls,          \* history: the number of calls the driving goroutine has made
    expected,       \* history: start time plus the deltas of the returned advances
    adv,            \* history: about the advance in progress
    hist,           \* history: per tickable
    racer,          \* a second goroutine (a callback, a receiver) inside a call of the clock
    lock,           \* who holds the clock's RWMutex
    ctx,            \* the deadline contexts made on the clock, and the root they hang on
    sleeper         \* a goroutine in Sleep: where it is, its timer, what it saw on return

vars == <<now, nStopped, dropsTicks, elapsed, active, inactive, tk,
          nextTickerId, pending, pc, target, last, calls, expected, adv, hist,
          racer, lock, ctx, sleeper>>

Max(a, b) == IF a >= b THEN a ELSE b
Min(a, b) == IF a <= b THEN a ELSE b

NoId == 0 - 1
NoTime == 0 - 9
NoTickable == [kind |-> "none", state |-> tsActive, next |-> 0, d |-> 0]
NoRacer == [op |-> "none", id |-> NoId, wasActive |-> FALSE]
Free == "free"
RootCtx == 0 - 2                         \* the parent that is no deadline context
NoCtx == [kind |-> "none", parent |-> NoId, deadline |-> NoTime, err |-> Nil, closes |-> 0,
          timer |-> NoId, after |-> NoId, noop |-> FALSE, cause |-> NoCause,
          cancels |-> 0, by |-> "none", gone |-> FALSE]
NoContexts == [root |-> Nil, rootAt |-> NoTime, n |-> 0, c |-> [c \in {} |-> NoCtx]]
NoSleeper == [state |-> "none", id |-> NoId, T |-> NoTime, d |-> 0, seen |-> NoTime]
NoDisp == [id |-> NoId, fire |-> NoTime, at |-> NoTime, was |-> "none", arg |-> NoTime,
           held |-> FALSE]

\* ------------------------------------------------------------- tickables.go
\* tickables.Less
Less(T, i, j) == T[i].next < T[j].next

\* sort.Sort(m.tickers.active): for fewer than 12 elements the standard
\* library sorts by insertion, moving an element left past every element
\* that is strictly greater.
RECURSIVE Insert(_, _, _)
Insert(T, s, x) ==
    IF s = <<>> \/ ~Less(T, x, s[Len(s)])
    THEN Append(s, x)
    ELSE Append(Insert(T, SubSeq(s, 1, Len(s) - 1), x), s[Len(s)])

RECURSIVE Sort(_, _)
Sort(T, s) ==
    IF Len(s) <= 1 THEN s
    ELSE Insert(T, Sort(T, SubSeq(s, 1, Len(s) - 1)), s[Len(s)])

\* tickables.get (as a test for presence)
get(s, id) == \E k \in 1 .. Len(s) : s[k] = id

\* tickables.remove: the first element with the id is deleted
RECURSIVE remove(_, _)
remove(s, id) ==
    IF s = <<>> THEN s
    ELSE IF Head(s) = id THEN Tail(s)
    ELSE <<Head(s)>> \o remove(Tail(s), id)

\* ---------------------------------------------------------------- registry
\* A registry value R is the part of the state the tickable operations work
\* on: [tk, active, inactive, pending], with two outputs of a tick: disp (the
\* delivery it dispatched, if any) and hung (its catch-up loop never ends).
\* held says that the code at work is the closure of a withLock: it runs
\* with the write lock of the clock held.

\* mockClock.activateTicker
activateTicker(R, i) ==
    [R EXCEPT !.active = Sort(R.tk, Append(R.active, i))]

\* a disableTicker that takes the tickable and does not keep it
disableTickerDrops(R, i) == [R EXCEPT !.active = remove(R.active, i)]

\* mockClock.disableTicker
disableTicker(R, i) ==
    IF get(R.active, i)
    THEN [R EXCEPT !.active = remove(R.active, i), !.inactive = Append(R.inactive, i)]
    ELSE R

\* an enableTicker that leaves the tickable in the inactive list as well
enableTickerCopies(R, i) ==
    IF get(R.inactive, i) THEN activateTicker(R, i) ELSE R

\* mockClock.enableTicker
enableTicker(R, i) ==
    IF get(R.inactive, i)
    THEN activateTicker([R EXCEPT !.inactive = remove(R.inactive, i)], i)
    ELSE R

\* an enterState that records nothing
timerEnterStateForgets(R, i, state) == R

\* timer.enterState
timerEnterState(R, i, state) ==
    IF R.tk[i].state = state THEN R
    ELSE LET R1 == [R EXCEPT !.tk[i].state = state]
         IN  IF state = tsActive THEN enableTicker(R1, i) ELSE disableTicker(R1, i)

\* ticker.enterState: the state is assigned before the switch, so an attempt
\* to enter tsExpired panics with the state already changed.
tickerEnterState(R, i, state) ==
    IF R.tk[i].state = state THEN R
    ELSE LET R1 == [R EXCEPT !.tk[i].state = state]
         IN  CASE state = tsActive  -> enableTicker(R1, i)
               [] state = tsStopped -> disableTicker(R1, i)
               [] OTHER             -> R1

\* the go statement of timer.tick and ticker.tick: the goroutine joins those
\* that are started and have not run yet.  The goroutines are unordered; the
\* sequence is kept in a canonical order (by id, then by carried value).
goKey(g) == g.id * 1000 + g.at
RECURSIVE go(_, _)
go(p, g) ==
    IF p = <<>> \/ goKey(p[Len(p)]) <= goKey(g)
    THEN Append(p, g)
    ELSE Append(go(SubSeq(p, 1, Len(p) - 1), g), p[Len(p)])

\* a tick that forgets to look at the state of the tickable
tickDueInAnyState(t, nowArg) == t.next <= nowArg

\* the guard of timer.tick and of ticker.tick, negated:
\* t.state != tsActive || t.next.After(now) returns false
tickDue(t, nowArg) == t.state = tsActive /\ t.next <= nowArg

\* timer.tick: the goroutine it starts reads t.next when it runs
timerTick(R, i, nowArg) ==
    IF ~tickDue(R.tk[i], nowArg) THEN R
    ELSE LET R1 == timerEnterState(R, i, tsExpired)
         IN  [R1 EXCEPT !.pending = go(R.pending, [id |-> i, kind |-> "timer", at |-> NoTime]),
                        !.disp = [id |-> i, fire |-> R.tk[i].next, at |-> R.tk[i].next,
                                  was |-> R.tk[i].state, arg |-> nowArg, held |-> R.held]]

\* the catch-up loop of ticker.tick, for d > 0
RECURSIVE dropLoop(_, _, _, _)
dropLoop(at, next, d, nowArg) ==
    IF next > nowArg THEN <<at, next>> ELSE dropLoop(next, next + d, d, nowArg)

\* a ticker.tick that leaves the next tick time where it is
tickerTickStays(R, i, nowArg, drops) ==
    IF ~tickDue(R.tk[i], nowArg) THEN R
    ELSE [R EXCEPT !.pending = go(R.pending, [id |-> i, kind |-> "ticker", at |-> R.tk[i].next]),
                   !.disp = [id |-> i, fire |-> R.tk[i].next, at |-> R.tk[i].next,
                             was |-> R.tk[i].state, arg |-> nowArg, held |-> R.held]]

\* ticker.tick: the goroutine it starts carries the captured value at
tickerTick(R, i, nowArg, drops) ==
    IF ~tickDue(R.tk[i], nowArg) THEN R
    ELSE LET t == R.tk[i]
             spins == drops /\ t.d <= 0       \* !t.next.After(now) stays true
             res == IF drops /\ ~spins
                    THEN dropLoop(t.next, t.next + t.d, t.d, nowArg)
                    ELSE <<t.next, t.next + t.d>>
         IN  IF spins THEN [R EXCEPT !.hung = TRUE]
             ELSE [R EXCEPT !.tk[i].next = res[2],
                            !.pending = go(R.pending, [id |-> i, kind |-> "ticker", at |-> res[1]]),
                            !.disp = [id |-> i, fire |-> t.next, at |-> res[1],
                                      was |-> t.state, arg |-> nowArg, held |-> R.held]]

\* tickable.tick, dispatched on the dynamic type
tick(R, i, nowArg, drops) ==
    IF R.tk[i].kind = "timer" THEN timerTick(R, i, nowArg) ELSE tickerTick(R, i, nowArg, drops)

Reg == [tk |-> tk, active |-> active, inactive |-> inactive, pending |-> pending,
        disp |-> NoDisp, hung |-> FALSE, ret |-> FALSE, held |-> FALSE]

Created(i) == i \in Ids /\ i < nextTickerId

\* mockClock.IsRunning
IsRunning == nStopped = 0

\* ------------------------------------------------------------------ history
FiredCap == MaxTime + 2

NoLast == [op |-> "none", t |-> NoTime, err |-> NoErr, disp |-> NoDisp, prevFire |-> NoTime,
           ret |-> FALSE, id |-> NoId, was |-> "none", same |-> TRUE]
NoAdv == [lastFire |-> NoTime, back |-> FALSE, exp |-> Epoch, running |-> FALSE]
NoHist == [T |-> NoTime, e0 |-> NoTime, pos |-> FALSE, fired |-> 0, inAdv |-> 0,
           next0 |-> NoTime, lastAt |-> NoTime, seqOk |-> TRUE, touched |-> FALSE,
           stopped |-> FALSE, reset |-> FALSE, armed |-> FALSE, ticker |-> FALSE]

\* the history of a tickable created by a call with duration d: the creation
\* time is kept where a claim reads it (tickers, timers that fire at once)
NewHist(d, isTicker) ==
    [NoHist EXCEPT !.T = IF isTicker \/ d <= 0 THEN now ELSE NoTime,
                   !.e0 = IF isTicker THEN expected ELSE NoTime,
                   !.pos = d > 0, !.ticker = isTicker]

\* the call has left the tickables and both lists of R as they were
Same(R) == R.tk = tk /\ R.active = active /\ R.inactive = inactive

\* what a call leaves in last: the delivery it dispatched, if any
Call(dsp) ==
    IF dsp.id = NoId THEN NoLast ELSE [NoLast EXCEPT !.op = "dispatch", !.disp = dsp]

\* the history of a tickable after the delivery dsp has been dispatched
Fired(h, dsp, inAdvance) ==
    IF dsp.id = NoId THEN h
    ELSE [h EXCEPT ![dsp.id].fired = Min(@ + 1, FiredCap),
                   ![dsp.id].inAdv = IF inAdvance /\ h[dsp.id].ticker
                                     THEN Min(@ + 1, FiredCap) ELSE @,
                   ![dsp.id].lastAt = IF h[dsp.id].ticker THEN dsp.at ELSE @,
                   ![dsp.id].armed = FALSE,
                   ![dsp.id].seqOk = @ /\ h[dsp.id].ticker => dsp.at = h[dsp.id].T + (h[dsp.id].fired + 1) * tk[dsp.id].d]

\* the history at the start of an advance: what a ticker has at that point
AdvanceBegins(h) ==
    [i \in Ids |-> IF h[i].ticker THEN [h[i] EXCEPT !.inAdv = 0, !.next0 = tk[i].next]
                                ELSE h[i]]

Touched(h, i) == [h EXCEPT ![i].touched = TRUE, ![i].armed = FALSE]

\* the history of a tickable after a Stop that found it Active or not, and
\* after a Reset that took effect
Stopped(h, i, wasActive) == [Touched(h, i) EXCEPT ![i].stopped = @ \/ wasActive]
Rearmed(h, i) == [Touched(h, i) EXCEPT ![i].stopped = FALSE, ![i].reset = TRUE]

\* ... by a Reset(d) with d > 0: armed until it is dispatched, stopped or reset
Armed(h, i, d) == [Rearmed(h, i) EXCEPT ![i].armed = d > 0]

\* -------------------------------------------------------------------- Init
\* NewMockClock(): at the epoch, stopped, no tickables; DropsTicks() or not
Init ==
    /\ now = Epoch
    /\ nStopped = 1
    /\ dropsTicks \in BOOLEAN
    /\ elapsed = 0
    /\ active = <<>>
    /\ inactive = <<>>
    /\ tk = [i \in Ids |-> NoTickable]
    /\ nextTickerId = 0
    /\ pending = <<>>
    /\ pc = "idle"
    /\ target = Epoch
    /\ last = NoLast
    /\ calls = 0
    /\ expected = Epoch
    /\ adv = NoAdv
    /\ hist = [i \in Ids |-> NoHist]
    /\ racer = NoRacer
    /\ lock = Free
    /\ ctx = NoContexts
    /\ sleeper = NoSleeper

\* the registry part of the next state
SetReg(R) ==
    /\ tk' = R.tk
    /\ active' = R.active
    /\ inactive' = R.inactive
    /\ pending' = R.pending

\* timers and tickers are set while the clock is within the bounds, and not
\* to a time more than MaxBack before the epoch or more than one unit after
\* the latest target (later times are all alike: never reached)
InRange(d) ==
    /\ now <= MaxTime
    /\ now + d >= Epoch - MaxBack
    /\ now + d <= MaxTime + 1

\* a tick may start a goroutine only while fewer than MaxPending are waiting
Room(R) == R.disp.id # NoId => Len(pending) < MaxPending

\* ------------------------------------------------------------ the clock API
\* mockClock.newTimer (NewTimer, After, AfterFunc): registered Active at
\* now + max(d, 0) under the write lock, then ticked if d <= 0
NewTimer(d) ==
    /\ lock = Free
    /\ UNCHANGED <<racer, lock, ctx, sleeper>>
    /\ pc = "idle"
    /\ calls < MaxCalls
    /\ calls' = calls + 1
    /\ InRange(d)
    /\ nextTickerId < MaxTickables
    /\ LET i == nextTickerId
           R0 == [Reg EXCEPT !.tk[i] = [kind |-> "timer", state |-> tsActive,
                                        next |-> now + Max(d, 0), d |-> 0]]
           R1 == activateTicker(R0, i)
           R2 == IF d <= 0 THEN timerTick(R1, i, now) ELSE R1
       IN  /\ Room(R2)
           /\ SetReg(R2)
           /\ nextTickerId' = i + 1
           /\ last' = [Call(R2.disp) EXCEPT !.op = "NewTimer", !.id = i]
           /\ hist' = Fired([hist EXCEPT ![i] = NewHist(d, FALSE)], R2.disp, FALSE)
    /\ UNCHANGED <<now, nStopped, dropsTicks, elapsed, pc, target, expected, adv>>

\* mockClock.newTicker (NewTicker, Tick): registered Active at now + max(d, 0)
\* with period d, then ticked if d <= 0; with drop-ticks that tick never
\* returns, and the ticker stays as it was registered
NewTicker(d) ==
    /\ UNCHANGED <<racer, lock, ctx, sleeper>>
    /\ pc = "idle"
    /\ calls < MaxCalls
    /\ calls' = calls + 1
    /\ InRange(d)
    /\ nextTickerId < MaxTickables
    /\ LET i == nextTickerId
           R0 == [Reg EXCEPT !.tk[i] = [kind |-> "ticker", state |-> tsActive,
                                        next |-> now + Max(d, 0), d |-> d]]
           R1 == activateTicker(R0, i)
           R2 == IF d <= 0 THEN tickerTick(R1, i, now, dropsTicks) ELSE R1
       IN  IF lock # Free
           THEN /\ last' = [NoLast EXCEPT !.err = errClockLocked]     \* panicIfLocked
                /\ UNCHANGED <<tk, active, inactive, pending, nextTickerId, pc, hist>>
           ELSE /\ Room(R2)
                /\ SetReg(R2)
                /\ nextTickerId' = i + 1
                /\ pc' = IF R2.hung THEN "hung" ELSE pc
                /\ last' = Call(R2.disp)
                /\ hist' = Fired([hist EXCEPT ![i] = NewHist(d, TRUE)], R2.disp, FALSE)
    /\ UNCHANGED <<now, nStopped, dropsTicks, elapsed, target, expected, adv>>

\* a stop that does not look at the state first
timerStopUnchecked(R, i) == [timerEnterState(R, i, tsStopped) EXCEPT !.ret = TRUE]

\* timer.stop: enterState(tsStopped) if the timer is Active; returns wasActive
timerStop(R, i) ==
    IF R.tk[i].state = tsActive
    THEN [timerEnterState(R, i, tsStopped) EXCEPT !.ret = TRUE]
    ELSE R

\* ticker.stop: enterState(tsStopped) if the ticker is Active
tickerStop(R, i) ==
    IF R.tk[i].state = tsActive THEN tickerEnterState(R, i, tsStopped) ELSE R

\* Timer.Stop -> timer.stop
TimerStop(i) ==
    /\ UNCHANGED <<racer, lock, ctx, sleeper>>
    /\ pc = "idle"
    /\ calls < MaxCalls
    /\ calls' = calls + 1
    /\ Created(i) /\ tk[i].kind = "timer"
    /\ LET R1 == timerStop(Reg, i)
       IN  /\ SetReg(R1)
           /\ last' = [NoLast EXCEPT !.op = "Stop", !.ret = R1.ret, !.id = i,
                                     !.was = tk[i].state, !.same = Same(R1)]
           /\ hist' = Stopped(hist, i, tk[i].state = tsActive)
    /\ UNCHANGED <<now, nStopped, dropsTicks, elapsed, nextTickerId, pc, target, expected, adv>>

\* Ticker.Stop -> ticker.stop
TickerStop(i) ==
    /\ UNCHANGED <<racer, lock, ctx, sleeper>>
    /\ pc = "idle"
    /\ calls < MaxCalls
    /\ calls' = calls + 1
    /\ Created(i) /\ tk[i].kind = "ticker"
    /\ SetReg(tickerStop(Reg, i))
    /\ last' = [NoLast EXCEPT !.op = "Stop", !.id = i, !.was = tk[i].state,
                              !.same = Same(tickerStop(Reg, i))]
    /\ hist' = Stopped(hist, i, tk[i].state = tsActive)
    /\ UNCHANGED <<now, nStopped, dropsTicks, elapsed, nextTickerId, pc, target, expected, adv>>

\* mockClock.resetTimer: under the write lock t.next = now + d and, if
\* d == 0, t.tick(now); after the lock, enterState(tsActive) unless Active
resetTimer(R, i, d) ==
    LET R1 == [R EXCEPT !.tk[i].next = now + d, !.held = TRUE]
        R2 == [(IF d = 0 THEN timerTick(R1, i, now) ELSE R1) EXCEPT !.held = FALSE]
    IN  IF R2.tk[i].state # tsActive THEN timerEnterState(R2, i, tsActive) ELSE R2

\* Timer.Reset -> timer.reset
TimerReset(i, d) ==
    /\ lock = Free
    /\ UNCHANGED <<racer, lock, ctx, sleeper>>
    /\ pc = "idle"
    /\ calls < MaxCalls
    /\ calls' = calls + 1
    /\ InRange(d)
    /\ Created(i) /\ tk[i].kind = "timer"
    /\ LET R1 == resetTimer(Reg, i, d)
       IN  /\ Room(R1)
           /\ SetReg(R1)
           /\ last' = [Call(R1.disp) EXCEPT !.ret = tk[i].state = tsActive]
           /\ hist' = Fired(Armed(hist, i, d), R1.disp, FALSE)
    /\ UNCHANGED <<now, nStopped, dropsTicks, elapsed, nextTickerId, pc, target, expected, adv>>

\* mockClock.resetTicker: under the write lock t.d = d and
\* t.next = now + max(d, 0); after the lock, enterState(tsActive)
resetTicker(R, i, d) ==
    tickerEnterState([R EXCEPT !.tk[i].d = d, !.tk[i].next = now + Max(d, 0)], i, tsActive)

\* Ticker.Reset -> ticker.reset: panics for d <= 0
TickerReset(i, d) ==
    /\ lock = Free
    /\ UNCHANGED <<racer, lock, ctx, sleeper>>
    /\ pc = "idle"
    /\ calls < MaxCalls
    /\ calls' = calls + 1
    /\ InRange(d)
    /\ Created(i) /\ tk[i].kind = "ticker"
    /\ SetReg(IF d <= 0 THEN Reg ELSE resetTicker(Reg, i, d))
    /\ last' = [NoLast EXCEPT !.err = IF d <= 0 THEN errNonPositiveInterval ELSE NoErr]
    /\ hist' = IF d <= 0 THEN Touched(hist, i) ELSE Armed(hist, i, d)
    /\ UNCHANGED <<now, nStopped, dropsTicks, elapsed, nextTickerId, pc, target, expected, adv>>

\* mockClock.advance: a running clock moves by the real time since the last sync
advance == IF IsRunning THEN now + elapsed ELSE now

\* mockClock.Now
Now ==
    /\ lock = Free
    /\ UNCHANGED <<racer, lock, ctx, sleeper>>
    /\ advance <= MaxTime
    /\ now' = advance
    /\ elapsed' = IF IsRunning THEN 0 ELSE elapsed
    /\ last' = [NoLast EXCEPT !.op = "Now", !.t = advance]
    /\ UNCHANGED <<nStopped, dropsTicks, active, inactive, tk, nextTickerId, pending,
                   pc, target, calls, expected, adv, hist>>

\* mockClock.Sleep, called by a goroutine of its own, up to the point where
\* it waits: nothing for d <= 0; time.Sleep(d) on a running clock; on a
\* stopped clock a receive from After(max(d, 0)), the channel of a new timer
Sleep(d) ==
    /\ lock = Free
    /\ UNCHANGED <<racer, lock, ctx>>
    /\ pc = "idle"
    /\ sleeper.state = "none"
    /\ IF d <= 0
       THEN /\ sleeper' = [NoSleeper EXCEPT !.state = "awake", !.T = now, !.d = d]
            /\ last' = [NoLast EXCEPT !.op = "Sleep"]
            /\ UNCHANGED <<elapsed, active, inactive, tk, nextTickerId, pending, hist>>
       ELSE IF IsRunning
       THEN /\ elapsed + d <= MaxElapsed
            /\ elapsed' = elapsed + d
            /\ sleeper' = [NoSleeper EXCEPT !.state = "awake", !.T = now, !.d = d]
            /\ last' = [NoLast EXCEPT !.op = "Sleep"]
            /\ UNCHANGED <<active, inactive, tk, nextTickerId, pending, hist>>
       ELSE /\ InRange(d)
            /\ nextTickerId < MaxTickables
            /\ LET i == nextTickerId
                    R0 == [Reg EXCEPT !.tk[i] = [kind |-> "timer", state |-> tsActive,
                                                 next |-> now + Max(d, 0), d |-> 0]]
                    R1 == activateTicker(R0, i)
                IN  /\ SetReg(R1)
                    /\ nextTickerId' = i + 1
                    /\ hist' = [hist EXCEPT ![i] = NewHist(d, FALSE)]
                    /\ sleeper' = [NoSleeper EXCEPT !.state = "asleep", !.id = i,
                                                    !.T = now, !.d = d]
                    /\ last' = [NoLast EXCEPT !.op = "Sleep", !.id = i]
            /\ UNCHANGED elapsed
    /\ UNCHANGED <<now, nStopped, dropsTicks, pc, target, calls, expected, adv>>

\* Sleep has returned and the goroutine reads the clock: Now(), SinceCreated()
SleeperNow ==
    /\ lock = Free
    /\ UNCHANGED <<racer, lock, ctx>>
    /\ sleeper.state = "awake"
    /\ advance <= MaxTime + 1
    /\ now' = advance
    /\ elapsed' = IF IsRunning THEN 0 ELSE elapsed
    /\ sleeper' = [sleeper EXCEPT !.state = "done", !.seen = advance]
    /\ UNCHANGED <<nStopped, dropsTicks, active, inactive, tk, nextTickerId, pending,
                   pc, target, last, calls, expected, adv, hist>>

\* ------------------------------------------------------------- the advance
\* mockClock.AdvanceTo, up to its check: the call is made and the caller
\* sleeps for the yield
AdvanceTo(t) ==
    /\ UNCHANGED <<racer, lock, ctx, sleeper>>
    /\ pc = "idle"
    /\ calls < MaxCalls
    /\ calls' = calls + 1
    /\ pc' = "check"
    /\ target' = t
    /\ last' = NoLast
    /\ adv' = [lastFire |-> NoTime, back |-> t < now, exp |-> t, running |-> IsRunning]
    /\ hist' = AdvanceBegins(hist)
    /\ UNCHANGED <<now, nStopped, dropsTicks, elapsed, active, inactive, tk, nextTickerId,
                   pending, expected>>

\* mockClock.AdvanceBy: t = now + d is read under the read lock, then AdvanceTo(t)
AdvanceBy(d) ==
    /\ lock = Free
    /\ UNCHANGED <<racer, lock, ctx, sleeper>>
    /\ pc = "idle"
    /\ calls < MaxCalls
    /\ calls' = calls + 1
    /\ now + d <= MaxTime
    /\ now + d >= Epoch - MaxBack
    /\ expected + d <= MaxTime
    /\ pc' = "check"
    /\ target' = now + d
    /\ last' = NoLast
    /\ adv' = [lastFire |-> NoTime, back |-> d < 0, exp |-> expected + d, running |-> IsRunning]
    /\ hist' = AdvanceBegins(hist)
    /\ UNCHANGED <<now, nStopped, dropsTicks, elapsed, active, inactive, tk, nextTickerId,
                   pending, expected>>

\* the check of AdvanceTo: panic(ErrNotADelorean) if m.now.After(t)
goesBack(t) == now > t

AdvanceCheck ==
    /\ lock = Free
    /\ UNCHANGED <<racer, lock, ctx, sleeper>>
    /\ pc = "check"
    /\ pc' = IF goesBack(target) THEN "idle" ELSE "loop"
    /\ last' = [NoLast EXCEPT !.op = "check", !.t = target,
                              !.err = IF goesBack(target) THEN ErrNotADelorean ELSE NoErr]
    /\ target' = IF goesBack(target) THEN Epoch ELSE target
    /\ adv' = IF goesBack(target) THEN NoAdv ELSE adv
    /\ UNCHANGED <<now, nStopped, dropsTicks, elapsed, active, inactive, tk, nextTickerId,
                   pending, calls, expected, hist>>

\* mockClock.tick, its read-locked part: the first active tickable, unless
\* there is none or its next tick is after t
firstDue(t) ==
    IF active = <<>> THEN NoId
    ELSE IF tk[active[1]].next > t THEN NoId
    ELSE active[1]

\* one round of for m.tick(t) {} that returns true: the first active
\* tickable is ticked, then the active list is sorted under the write lock
AdvanceTick ==
    /\ lock = Free
    /\ UNCHANGED <<racer, lock, ctx, sleeper>>
    /\ pc = "loop"
    /\ firstDue(target) # NoId
    /\ LET R1 == tick(Reg, firstDue(target), target, dropsTicks)
           R2 == [R1 EXCEPT !.active = Sort(R1.tk, R1.active)]
       IN  /\ Room(R1)
           /\ SetReg(IF R1.hung THEN R1 ELSE R2)
           /\ pc' = IF R1.hung THEN "hung" ELSE "loop"
           /\ last' = IF R1.disp.id = NoId THEN NoLast
                      ELSE [NoLast EXCEPT !.op = "tick", !.disp = R1.disp, !.prevFire = adv.lastFire]
           /\ adv' = [adv EXCEPT !.lastFire = IF R1.disp.id # NoId THEN R1.disp.fire ELSE @]
           /\ hist' = Fired(hist, R1.disp, TRUE)
    /\ UNCHANGED <<now, nStopped, dropsTicks, elapsed, nextTickerId, target, calls, expected>>

\* the round of for m.tick(t) {} that returns false, and the end of
\* AdvanceTo: m.now = t and m.updated = time.Now() under the write lock
AdvanceEnd ==
    /\ lock = Free
    /\ UNCHANGED <<racer, lock, ctx, sleeper>>
    /\ pc = "loop"
    /\ firstDue(target) = NoId
    /\ now' = target
    /\ elapsed' = 0
    /\ pc' = "idle"
    /\ expected' = adv.exp
    /\ last' = [NoLast EXCEPT !.op = "return", !.t = target]
    /\ target' = Epoch                      \* the locals of the call are gone
    /\ adv' = NoAdv
    /\ UNCHANGED <<nStopped, dropsTicks, active, inactive, tk, nextTickerId, pending,
                   calls, hist>>

\* ------------------------------------------------------- deadline contexts
\* the table of contexts with one more: context c, the next one, is x
Put(C, c, x) == [k \in 0 .. c |-> IF k = c THEN x ELSE C[k]]

\* The registry value of the context operations carries the contexts as well.
CtxReg == [tk |-> tk, active |-> active, inactive |-> inactive, pending |-> pending,
           disp |-> NoDisp, hung |-> FALSE, ret |-> FALSE, held |-> FALSE,
           ctx |-> ctx]

\* parent.Done() is closed / parent.Err()
parentDone(C, p) == IF p = RootCtx THEN C.root # Nil ELSE C.c[p].closes > 0
parentErr(C, p) == IF p = RootCtx THEN C.root ELSE C.c[p].err

\* parent.Deadline(): mockContext.Deadline returns its own deadline; a
\* cancellable child of the standard library returns that of its parent; the
\* root has none (NoTime)
RECURSIVE Deadline(_, _)
Deadline(C, p) ==
    IF p = RootCtx THEN NoTime
    ELSE IF C.c[p].kind = "mock" THEN C.c[p].deadline
    ELSE Deadline(C, C.c[p].parent)

\* errors.Is(err, sentinel) for the errors of this model, none of which wraps
\* another: the error itself
Is(err, sentinel) == err = sentinel

\* a cancel that sets the error whatever it was
cancelOverwrites(R, c, err, by) ==
    LET i == R.ctx.c[c].timer
        R1 == [R EXCEPT !.ctx.c[c].err = err, !.ctx.c[c].closes = @ + 1, !.ctx.c[c].by = by]
    IN  IF i # NoId THEN [timerStop(R1, i) EXCEPT !.ctx.c[c].timer = NoId] ELSE R1

\* a cancel that leaves the timer of the context running
cancelKeepsTimer(R, c, err, by) ==
    IF R.ctx.c[c].err # Nil THEN R
    ELSE [R EXCEPT !.ctx.c[c].err = err, !.ctx.c[c].closes = @ + 1, !.ctx.c[c].by = by]

\* mockContext.cancel, under the mutex of the context: nothing if the error
\* is set; else the error is set, done is closed, and the timer, if any, is
\* stopped and released.  (by is history: who resolved the context.)
cancel(R, c, err, by) ==
    IF R.ctx.c[c].err # Nil THEN R
    ELSE LET i == R.ctx.c[c].timer
             R1 == [R EXCEPT !.ctx.c[c].err = err, !.ctx.c[c].closes = @ + 1, !.ctx.c[c].by = by]
         IN  IF i # NoId THEN [timerStop(R1, i) EXCEPT !.ctx.c[c].timer = NoId] ELSE R1

\* the history of the timers after cancel(R, c, ...): Stop has been called on
\* the timer of the context, if it had one
cancelHist(h, c) ==
    IF ctx.c[c].err = Nil /\ ctx.c[c].timer # NoId
    THEN Stopped(h, ctx.c[c].timer, tk[ctx.c[c].timer].state = tsActive)
    ELSE h

\* a newMockContext that takes a deadline equal to now for one to wait for
newMockContextStrict(R, c, p, deadline) ==
    LET R0 == [R EXCEPT !.ctx.c = Put(@, c, [NoCtx EXCEPT !.kind = "mock", !.parent = p,
                                                          !.deadline = deadline]),
                        !.ctx.n = c + 1]
        dur == deadline - now
        i == nextTickerId
        R1 == IF i \notin Ids THEN R0
              ELSE activateTicker([R0 EXCEPT !.tk[i] = [kind |-> "timer", state |-> tsActive,
                                                        next |-> now + Max(dur, 0), d |-> 0]], i)
    IN  IF dur < 0
        THEN [cancel(R0, c, DeadlineExceeded, "create") EXCEPT !.ctx.c[c].noop = TRUE]
        ELSE [R1 EXCEPT !.ctx.c[c].timer = i, !.ctx.c[c].after = i, !.ret = TRUE]

\* a newMockContext whose timer is set one unit after the deadline
newMockContextLate(R, c, p, deadline) ==
    LET R0 == [R EXCEPT !.ctx.c = Put(@, c, [NoCtx EXCEPT !.kind = "mock", !.parent = p,
                                                          !.deadline = deadline]),
                        !.ctx.n = c + 1]
        dur == deadline - now
        i == nextTickerId
        R1 == IF i \notin Ids THEN R0
              ELSE activateTicker([R0 EXCEPT !.tk[i] = [kind |-> "timer", state |-> tsActive,
                                                        next |-> now + dur + 1, d |-> 0]], i)
    IN  IF dur <= 0
        THEN [cancel(R0, c, DeadlineExceeded, "create") EXCEPT !.ctx.c[c].noop = TRUE]
        ELSE [R1 EXCEPT !.ctx.c[c].timer = i, !.ctx.c[c].after = i, !.ret = TRUE]

\* newMockContext: the context, the goroutine that watches the parent (the
\* action Watch), and then either cancel(DeadlineExceeded) with a no-op
\* cancel function if the deadline is not after now, or a timer from
\* clock.AfterFunc(dur, func() { ctx.cancel(context.DeadlineExceeded) })
newMockContext(R, c, p, deadline) ==
    LET R0 == [R EXCEPT !.ctx.c = Put(@, c, [NoCtx EXCEPT !.kind = "mock", !.parent = p,
                                                          !.deadline = deadline]),
                        !.ctx.n = c + 1]
        dur == deadline - now
        i == nextTickerId
        R1 == IF i \notin Ids THEN R0     \* no room for a timer: the call is not made
              ELSE activateTicker([R0 EXCEPT !.tk[i] = [kind |-> "timer", state |-> tsActive,
                                                        next |-> now + Max(dur, 0), d |-> 0]], i)
    IN  IF dur <= 0
        THEN [cancel(R0, c, DeadlineExceeded, "create") EXCEPT !.ctx.c[c].noop = TRUE]
        ELSE [R1 EXCEPT !.ctx.c[c].timer = i, !.ctx.c[c].after = i, !.ret = TRUE]

\* context.WithCancel(parent): a child with no deadline of its own, resolved
\* within the call with the error of the parent if the parent is done, and
\* else by a goroutine that waits on parent.Done()
WithCancel(R, c, p) ==
    LET R0 == [R EXCEPT !.ctx.c = Put(@, c, [NoCtx EXCEPT !.kind = "cancel", !.parent = p]),
                        !.ctx.n = c + 1]
    IN  IF parentDone(R.ctx, p) THEN cancel(R0, c, parentErr(R.ctx, p), "parent") ELSE R0

\* a ContextWithTimeoutCause that makes a deadline context with a timer of
\* its own whatever the deadline of the parent
ContextWithTimeoutCauseOwn(R, c, p, timeout, cause) == newMockContext(R, c, p, now + timeout)

\* ContextWithTimeoutCause on a mock clock: a context.WithCancel(parent) if
\* the parent has a deadline before now + timeout, else newMockContext; the
\* cause goes to neither
ContextWithTimeoutCause(R, c, p, timeout, cause) ==
    LET deadline == now + timeout
        parentDeadline == Deadline(R.ctx, p)
    IN  IF parentDeadline # NoTime /\ parentDeadline < deadline
        THEN WithCancel(R, c, p)
        ELSE newMockContext(R, c, p, deadline)

\* ContextWithDeadlineCause (ContextWithDeadline with a nil cause):
\* dur = clock.Until(deadline), then ContextWithTimeoutCause(parent, dur, cause).
\* (The cause is kept as history where a timer is to resolve the context:
\* what the caller supplied.)
ContextWithDeadlineCause(p, deadline, cause) ==
    /\ lock = Free
    /\ UNCHANGED <<racer, lock, sleeper>>
    /\ pc = "idle"
    /\ calls < MaxCalls
    /\ calls' = calls + 1
    /\ ctx.n < MaxCtx
    /\ p = RootCtx \/ (p \in CtxIds /\ p < ctx.n)
    /\ LET c == ctx.n
           dur == deadline - now
           R1 == ContextWithTimeoutCause(CtxReg, c, p, dur, cause)
       IN  /\ R1.ret => (nextTickerId < MaxTickables /\ InRange(dur))
           /\ SetReg(R1)
           /\ ctx' = [R1.ctx EXCEPT !.c[c].cause = IF R1.ret THEN cause ELSE NoCause]
           /\ nextTickerId' = IF R1.ret THEN nextTickerId + 1 ELSE nextTickerId
           /\ hist' = IF R1.ret THEN [hist EXCEPT ![nextTickerId] = NewHist(dur, FALSE)] ELSE hist
           /\ last' = [NoLast EXCEPT !.op = "ContextWithDeadline", !.id = c, !.t = deadline,
                                     !.ret = R1.ret, !.same = Same(R1)]
    /\ UNCHANGED <<now, nStopped, dropsTicks, elapsed, pc, target, expected, adv>>

\* ContextWithDeadline: ContextWithDeadlineCause(parent, deadline, nil)
ContextWithDeadline(p, deadline) == ContextWithDeadlineCause(p, deadline, NoCause)

\* the cancel function returned with a context: func() { /* NO-OP */ },
\* func() { ctx.cancel(context.Canceled) }, or that of context.WithCancel
CancelFunc(c) ==
    /\ UNCHANGED <<racer, lock, sleeper>>
    /\ pc = "idle"
    /\ calls < MaxCalls
    /\ calls' = calls + 1
    /\ c \in CtxIds /\ c < ctx.n
    /\ LET R1 == IF ctx.c[c].noop THEN CtxReg ELSE cancel(CtxReg, c, Canceled, "cancel")
       IN  /\ SetReg(R1)
           /\ ctx' = [R1.ctx EXCEPT !.c[c].cancels = 1]
           /\ hist' = IF ctx.c[c].noop THEN hist ELSE cancelHist(hist, c)
           /\ last' = [NoLast EXCEPT !.op = "cancel", !.id = c, !.was = ctx.c[c].err,
                                     !.same = Same(R1)]
    /\ UNCHANGED <<now, nStopped, dropsTicks, elapsed, nextTickerId, pc, target, expected, adv>>

\* the cancel function of the root (the parent made by context.WithCancel)
CancelRoot ==
    /\ UNCHANGED <<racer, lock, sleeper>>
    /\ pc = "idle"
    /\ calls < MaxCalls
    /\ calls' = calls + 1
    /\ ctx.root = Nil
    /\ ctx' = [ctx EXCEPT !.root = Canceled, !.rootAt = now]
    /\ last' = [NoLast EXCEPT !.op = "cancel root"]
    /\ UNCHANGED <<now, nStopped, dropsTicks, elapsed, active, inactive, tk, nextTickerId,
                   pending, pc, target, expected, adv, hist>>

\* the goroutine of newMockContext that waits for parent.Done() (that of
\* context.WithCancel for a cancellable child): ctx.cancel(parent.Err()).
\* It runs whenever it is scheduled, whatever the calling goroutine is doing,
\* and it may find the context resolved already.
Watch(c) ==
    /\ UNCHANGED <<racer, lock, sleeper>>
    /\ c \in CtxIds /\ c < ctx.n
    /\ parentDone(ctx, ctx.c[c].parent)
    /\ LET R1 == cancel(CtxReg, c, parentErr(ctx, ctx.c[c].parent), "parent")
       IN  /\ SetReg(R1)
           /\ ctx' = R1.ctx
           /\ hist' = cancelHist(hist, c)
           /\ last' = IF R1.ctx = ctx THEN last ELSE [NoLast EXCEPT !.op = "watch", !.id = c]
    /\ UNCHANGED <<now, nStopped, dropsTicks, elapsed, nextTickerId, pc, target, calls,
                   expected, adv>>

\* The same goroutine with its end: select { case <-parent.Done():
\* ctx.cancel(parent.Err()); case <-ctx.Done(): }.  Either case is taken once,
\* when its channel is closed, and the goroutine returns (gone).

\* a watcher that does not look at ctx.Done()
watcherSeesNothing(C, c) == FALSE

\* case <-ctx.Done() is ready: done is closed
watcherSees(C, c) == C.c[c].closes > 0

\* case <-parent.Done(): ctx.cancel(parent.Err())
WatchParent(c) ==
    /\ UNCHANGED <<racer, lock, sleeper>>
    /\ c \in CtxIds /\ c < ctx.n
    /\ ~ctx.c[c].gone
    /\ parentDone(ctx, ctx.c[c].parent)
    /\ LET R1 == cancel(CtxReg, c, parentErr(ctx, ctx.c[c].parent), "parent")
       IN  /\ SetReg(R1)
           /\ ctx' = [R1.ctx EXCEPT !.c[c].gone = TRUE]
           /\ hist' = cancelHist(hist, c)
           /\ last' = [NoLast EXCEPT !.op = "watch", !.id = c, !.was = ctx.c[c].err]
    /\ UNCHANGED <<now, nStopped, dropsTicks, elapsed, nextTickerId, pc, target, calls,
                   expected, adv>>

\* case <-ctx.Done(): nothing
WatchSelf(c) ==
    /\ c \in CtxIds /\ c < ctx.n
    /\ ~ctx.c[c].gone
    /\ watcherSees(ctx, c)
    /\ ctx' = [ctx EXCEPT !.c[c].gone = TRUE]
    /\ UNCHANGED <<now, nStopped, dropsTicks, elapsed, active, inactive, tk, nextTickerId,
                   pending, pc, target, last, calls, expected, adv, hist, racer, lock,
                   sleeper>>

\* the context whose cancel is the fn of timer i, if any
fnOf(i) ==
    IF \E c \in DOMAIN ctx.c : ctx.c[c].after = i
    THEN CHOOSE c \in DOMAIN ctx.c : ctx.c[c].after = i
    ELSE NoId

\* a delivery goroutine runs: go func() { t.clock.now = t.next; t.fn() }() or
\* go func() { t.clock.now = t.next; t.c <- t.next }() of timer.tick,
\* go func() { withLock(c.now = at); t.c <- at }() of ticker.tick
nowSetBy(g) == IF g.kind = "timer" THEN tk[g.id].next ELSE g.at

Deliver(k) ==
    /\ UNCHANGED <<racer, lock>>
    /\ k \in 1 .. Len(pending)
    /\ sleeper' = IF sleeper.state = "asleep" /\ pending[k].id = sleeper.id
                  THEN [sleeper EXCEPT !.state = "awake"]      \* <-m.After(d) receives
                  ELSE sleeper
    /\ pending[k].kind = "ticker" => lock = Free        \* withLock
    /\ now' = nowSetBy(pending[k])
    /\ LET c == fnOf(pending[k].id)
           R0 == [CtxReg EXCEPT !.pending = SubSeq(pending, 1, k - 1)
                                             \o SubSeq(pending, k + 1, Len(pending))]
           R1 == IF c = NoId THEN R0 ELSE cancel(R0, c, DeadlineExceeded, "timer")
       IN  /\ SetReg(R1)
           /\ ctx' = R1.ctx
           /\ hist' = IF c = NoId THEN hist ELSE cancelHist(hist, c)
    /\ last' = [NoLast EXCEPT !.op = "deliver", !.id = pending[k].id, !.t = nowSetBy(pending[k])]
    /\ UNCHANGED <<nStopped, dropsTicks, elapsed, nextTickerId, pc, target, calls, expected, adv>>

\* ------------------------------------------------------- the running clock
\* real time passes
TimePasses ==
    /\ UNCHANGED <<racer, lock, ctx, sleeper>>
    /\ elapsed < MaxElapsed
    /\ elapsed' = elapsed + 1
    /\ UNCHANGED <<now, nStopped, dropsTicks, active, inactive, tk, nextTickerId, pending,
                   pc, target, last, calls, expected, adv, hist>>

\* mockClock.Start: the counter is decremented first; a sync if it reaches 0,
\* panic(ErrClockIsRunning) if it goes below
ClockStart ==
    /\ lock = Free
    /\ UNCHANGED <<racer, lock, ctx, sleeper>>
    /\ pc = "idle"
    /\ calls < MaxCalls
    /\ calls' = calls + 1
    /\ nStopped > 0 - 1
    /\ nStopped' = nStopped - 1
    /\ nStopped' = 0 => now + elapsed <= MaxTime
    /\ now' = IF nStopped' = 0 THEN now + elapsed ELSE now
    /\ elapsed' = IF nStopped' = 0 THEN 0 ELSE elapsed
    /\ last' = [NoLast EXCEPT !.op = "Start",
                              !.err = IF nStopped' < 0 THEN ErrClockIsRunning ELSE NoErr]
    /\ UNCHANGED <<dropsTicks, active, inactive, tk, nextTickerId, pending,
                   pc, target, expected, adv, hist>>

\* mockClock.Stop
ClockStop ==
    /\ UNCHANGED <<racer, lock, ctx, sleeper>>
    /\ pc = "idle"
    /\ calls < MaxCalls
    /\ calls' = calls + 1
    /\ nStopped < 2
    /\ nStopped' = nStopped + 1
    /\ last' = NoLast
    /\ UNCHANGED <<now, dropsTicks, elapsed, active, inactive, tk, nextTickerId, pending,
                   pc, target, expected, adv, hist>>

\* mockClock.Update: panic(ErrClockNotRunning) unless running, else a sync
Update ==
    /\ lock = Free
    /\ UNCHANGED <<racer, lock, ctx, sleeper>>
    /\ pc = "idle"
    /\ calls < MaxCalls
    /\ calls' = calls + 1
    /\ advance <= MaxTime
    /\ now' = advance
    /\ elapsed' = IF IsRunning THEN 0 ELSE elapsed
    /\ last' = [NoLast EXCEPT !.op = "Update", !.t = advance,
                              !.err = IF IsRunning THEN NoErr ELSE ErrClockNotRunning]
    /\ UNCHANGED <<nStopped, dropsTicks, active, inactive, tk, nextTickerId, pending,
                   pc, target, expected, adv, hist>>

\* ------------------------------------------------------ a second goroutine
\* Timer.Stop called by another goroutine while the first one is anywhere in
\* its own call: timer.stop reads the state (wasActive) without the lock ...
RacerStopRead(i) ==
    /\ racer = NoRacer
    /\ calls < MaxCalls
    /\ calls' = calls + 1
    /\ Created(i) /\ tk[i].kind = "timer"
    /\ racer' = [op |-> "Stop", id |-> i, wasActive |-> tk[i].state = tsActive]
    /\ UNCHANGED <<now, nStopped, dropsTicks, elapsed, active, inactive, tk, nextTickerId,
                   pending, pc, target, last, expected, adv, hist, lock, ctx, sleeper>>

\* ... and then, if wasActive, calls enterState(tsStopped), which returns at
\* once only if the state is tsStopped already; it returns wasActive
RacerStopWrite ==
    /\ racer.op = "Stop"
    /\ SetReg(IF racer.wasActive THEN timerEnterState(Reg, racer.id, tsStopped) ELSE Reg)
    /\ racer' = NoRacer
    /\ last' = [NoLast EXCEPT !.op = "Stop (racing)", !.ret = racer.wasActive, !.id = racer.id]
    /\ hist' = Stopped(hist, racer.id, racer.wasActive)
    /\ UNCHANGED <<now, nStopped, dropsTicks, elapsed, nextTickerId, pc, target, calls,
                   expected, adv, lock, ctx, sleeper>>

\* Now() called by another goroutine: m.Lock() ...
RacerNowLock ==
    /\ racer = NoRacer
    /\ lock = Free
    /\ calls < MaxCalls
    /\ calls' = calls + 1
    /\ racer' = [NoRacer EXCEPT !.op = "Now"]
    /\ lock' = "racer"
    /\ UNCHANGED <<now, nStopped, dropsTicks, elapsed, active, inactive, tk, nextTickerId,
                   pending, pc, target, last, expected, adv, hist, ctx, sleeper>>

\* ... return m.advance() and the deferred m.Unlock()
RacerNowUnlock ==
    /\ racer.op = "Now"
    /\ now' = advance
    /\ elapsed' = IF IsRunning THEN 0 ELSE elapsed
    /\ racer' = NoRacer
    /\ lock' = Free
    /\ last' = [NoLast EXCEPT !.op = "Now", !.t = advance]
    /\ UNCHANGED <<nStopped, dropsTicks, active, inactive, tk, nextTickerId, pending,
                   pc, target, calls, expected, adv, hist, ctx, sleeper>>

\* mockClock.tick while another goroutine holds the lock: panicIfLocked finds
\* TryLock failing and panics out of AdvanceTo
AdvanceLocked ==
    /\ pc = "loop"
    /\ lock # Free
    /\ pc' = "idle"
    /\ last' = [NoLast EXCEPT !.op = "panic", !.t = target, !.err = errClockLocked,
                              !.prevFire = adv.lastFire]
    /\ target' = Epoch
    /\ adv' = NoAdv
    /\ UNCHANGED <<now, nStopped, dropsTicks, elapsed, active, inactive, tk, nextTickerId,
                   pending, calls, expected, hist, racer, lock, ctx, sleeper>>

\* ------------------------------------------- tickers made by two goroutines
\* the second goroutine holds the clock's lock for reading (eval)
RLocked == "read-locked by racer"
PositiveDurations == 1 .. MaxDur

\* mockClock.newTicker called by the driving goroutine, its first statement:
\* panicIfLocked, which panics unless TryLock succeeds
NewTickerProbe ==
    /\ pc = "idle"
    /\ calls < MaxCalls
    /\ calls' = calls + 1
    /\ pc' = IF lock = Free THEN "probed" ELSE "idle"
    /\ last' = [NoLast EXCEPT !.op = "NewTicker (probe)",
                              !.err = IF lock = Free THEN NoErr ELSE errClockLocked]
    /\ UNCHANGED <<now, nStopped, dropsTicks, elapsed, active, inactive, tk, nextTickerId,
                   pending, target, expected, adv, hist, racer, lock, ctx, sleeper>>

\* ... and the rest of it: the closure of eval under the read lock, which
\* other readers may hold as well, and the tick if d <= 0
NewTickerRun(d) ==
    /\ pc = "probed"
    /\ lock \in {Free, RLocked}
    /\ InRange(d)
    /\ nextTickerId < MaxTickables
    /\ LET i == nextTickerId
           R0 == [Reg EXCEPT !.tk[i] = [kind |-> "ticker", state |-> tsActive,
                                        next |-> now + Max(d, 0), d |-> d]]
           R1 == activateTicker(R0, i)
           R2 == IF d <= 0 THEN tickerTick(R1, i, now, dropsTicks) ELSE R1
       IN  /\ Room(R2)
           /\ SetReg(R2)
           /\ nextTickerId' = i + 1
           /\ pc' = IF R2.hung THEN "hung" ELSE "idle"
           /\ last' = [Call(R2.disp) EXCEPT !.op = "NewTicker", !.id = i]
           /\ hist' = Fired([hist EXCEPT ![i] = NewHist(d, TRUE)], R2.disp, FALSE)
    /\ UNCHANGED <<now, nStopped, dropsTicks, elapsed, target, calls, expected, adv,
                   racer, lock, ctx, sleeper>>

\* mockClock.newTicker called by the second goroutine: panicIfLocked passes
RacerTickerProbe ==
    /\ racer = NoRacer
    /\ lock = Free
    /\ calls < MaxCalls
    /\ calls' = calls + 1
    /\ racer' = [NoRacer EXCEPT !.op = "NewTicker (probed)"]
    /\ UNCHANGED <<now, nStopped, dropsTicks, elapsed, active, inactive, tk, nextTickerId,
                   pending, pc, target, last, expected, adv, hist, lock, ctx, sleeper>>

\* ... m.RLock() and, in the closure, tickerId: m.nextTickerId
RacerTickerRead ==
    /\ racer.op = "NewTicker (probed)"
    /\ lock = Free
    /\ nextTickerId < MaxTickables
    /\ racer' = [NoRacer EXCEPT !.op = "NewTicker (read)", !.id = nextTickerId]
    /\ lock' = RLocked
    /\ UNCHANGED <<now, nStopped, dropsTicks, elapsed, active, inactive, tk, nextTickerId,
                   pending, pc, target, last, calls, expected, adv, hist, ctx, sleeper>>

\* ... m.activateTicker(ticker), m.nextTickerId++ and m.RUnlock().  The
\* increment is a load and a store that no lock orders against those of
\* another reader: it stores one more than the value the goroutine has read
\* or one more than the value that is there now.
RacerTickerWrite(d, stale) ==
    /\ racer.op = "NewTicker (read)"
    /\ InRange(d)
    /\ LET i == racer.id
           R0 == [Reg EXCEPT !.tk[i] = [kind |-> "ticker", state |-> tsActive,
                                        next |-> now + d, d |-> d]]
       IN  /\ SetReg(activateTicker(R0, i))
           /\ hist' = [hist EXCEPT ![i] = NewHist(d, TRUE)]
           /\ last' = [NoLast EXCEPT !.op = "NewTicker (racing)", !.id = i]
    /\ nextTickerId' = IF stale THEN racer.id + 1 ELSE Min(nextTickerId + 1, MaxTickables)
    /\ racer' = NoRacer
    /\ lock' = Free
    /\ UNCHANGED <<now, nStopped, dropsTicks, elapsed, pc, target, calls, expected, adv,
                   ctx, sleeper>>

\* --------------------------------------------------------- specifications
\* the stopped clock: the API of timers and tickers, the advance, deliveries
Next ==
    \/ \E d \in Durations : NewTimer(d)
    \/ \E d \in TickerDurations : NewTicker(d)
    \/ \E i \in Ids : TimerStop(i)
    \/ \E i \in Ids : TickerStop(i)
    \/ \E i \in Ids, d \in Durations : TimerReset(i, d)
    \/ \E i \in Ids, d \in TickerDurations : TickerReset(i, d)
    \/ \E t \in Targets : AdvanceTo(t)
    \/ \E d \in Durations : AdvanceBy(d)
    \/ AdvanceCheck
    \/ AdvanceTick
    \/ AdvanceEnd
    \/ \E k \in 1 .. MaxPending : Deliver(k)

Spec == Init /\ [][Next]_vars

\* the clock that may be started and stopped
NextRunning ==
    \/ Next
    \/ Now
    \/ TimePasses
    \/ ClockStart
    \/ ClockStop
    \/ Update

SpecRunning == Init /\ [][NextRunning]_vars

\* the stopped clock used by two goroutines at once
NextConcurrent ==
    \/ Next
    \/ \E i \in Ids : RacerStopRead(i)
    \/ RacerStopWrite
    \/ RacerNowLock
    \/ RacerNowUnlock
    \/ AdvanceLocked

SpecConcurrent == Init /\ [][NextConcurrent]_vars

\* deadline contexts on the stopped clock: contexts are made, cancelled and
\* left to expire as the clock is advanced
NextContext ==
    \/ \E p \in CtxIds \cup {RootCtx}, D \in Deadlines : ContextWithDeadline(p, D)
    \/ \E c \in CtxIds : CancelFunc(c)
    \/ CancelRoot
    \/ \E c \in CtxIds : Watch(c)
    \/ \E t \in Targets : AdvanceTo(t)
    \/ AdvanceCheck
    \/ AdvanceTick
    \/ AdvanceEnd
    \/ \E k \in 1 .. MaxPending : Deliver(k)

\* ContextWithMockClock(context.Background()): a mock clock with no option
InitContext == Init /\ ~dropsTicks

SpecContext == InitContext /\ [][NextContext]_vars

\* deadline contexts made with a cause or without one
NextCause ==
    \/ \E p \in CtxIds \cup {RootCtx}, D \in Deadlines, cause \in Causes :
           ContextWithDeadlineCause(p, D, cause)
    \/ \E c \in CtxIds : CancelFunc(c)
    \/ CancelRoot
    \/ \E c \in CtxIds : Watch(c)
    \/ \E t \in Targets : AdvanceTo(t)
    \/ AdvanceCheck
    \/ AdvanceTick
    \/ AdvanceEnd
    \/ \E k \in 1 .. MaxPending : Deliver(k)

SpecCause == InitContext /\ [][NextCause]_vars

\* a goroutine sleeps on the stopped clock while the driving goroutine makes
\* timers and advances the clock
NextSleep ==
    \/ \E d \in Durations : Sleep(d)
    \/ SleeperNow
    \/ \E d \in Durations : NewTimer(d)
    \/ \E t \in FarTargets : AdvanceTo(t)
    \/ \E d \in Durations : AdvanceBy(d)
    \/ AdvanceCheck
    \/ AdvanceTick
    \/ AdvanceEnd
    \/ \E k \in 1 .. MaxPending : Deliver(k)

SpecSleep == Init /\ [][NextSleep]_vars

\* timers and tickers whose channels nobody ever receives from: they are
\* created and the clock is advanced, further than elsewhere; the calling
\* goroutine goes on with its own code and every goroutine that a tick has
\* started is scheduled at some point
NextUnread ==
    \/ \E d \in Durations : NewTimer(d)
    \/ \E d \in TickerDurations : NewTicker(d)
    \/ \E t \in FarTargets : AdvanceTo(t)
    \/ \E d \in Durations : AdvanceBy(d)
    \/ AdvanceCheck
    \/ AdvanceTick
    \/ AdvanceEnd
    \/ \E k \in 1 .. MaxPending : Deliver(k)

FairUnread ==
    /\ WF_vars(AdvanceCheck)
    /\ WF_vars(AdvanceTick)
    /\ WF_vars(AdvanceEnd)
    /\ \A k \in 1 .. MaxPending : WF_vars(Deliver(k))

SpecUnread == Init /\ [][NextUnread]_vars /\ FairUnread

\* timers and tickers made on the stopped clock by two goroutines at once
NextCreate ==
    \/ NewTickerProbe
    \/ \E d \in TickerDurations : NewTickerRun(d)
    \/ RacerTickerProbe
    \/ RacerTickerRead
    \/ \E d \in PositiveDurations, stale \in BOOLEAN : RacerTickerWrite(d, stale)
    \/ \E d \in Durations : NewTimer(d)
    \/ \E i \in Ids : TimerStop(i)
    \/ \E i \in Ids : TickerStop(i)
    \/ \E k \in 1 .. MaxPending : Deliver(k)

SpecCreate == Init /\ [][NextCreate]_vars

\* deadline contexts made on the cancellable root and the goroutines that
\* watch it for them, each of which is scheduled at some point when it can
\* take a case of its select
NextWatch ==
    \/ \E D \in Deadlines : ContextWithDeadline(RootCtx, D)
    \/ \E c \in CtxIds : CancelFunc(c)
    \/ CancelRoot
    \/ \E c \in CtxIds : WatchParent(c)
    \/ \E c \in CtxIds : WatchSelf(c)
    \/ \E t \in Targets : AdvanceTo(t)
    \/ AdvanceCheck
    \/ AdvanceTick
    \/ AdvanceEnd
    \/ \E k \in 1 .. MaxPending : Deliver(k)

FairWatch == \A c \in CtxIds : WF_vars(WatchParent(c)) /\ WF_vars(WatchSelf(c))

SpecWatch == InitContext /\ [][NextWatch]_vars /\ FairWatch

\* NewMockClock(AtTime(t)) / NewMockClock(AtNow()): as NewMockClock(), with
\* now set to t by the option; createdAt is set by NewMockClock alone
StartTimes == 0 .. MaxTime
createdAt == Epoch

InitAtTime ==
    /\ now \in StartTimes
    /\ nStopped = 1
    /\ dropsTicks \in BOOLEAN
    /\ elapsed = 0
    /\ active = <<>>
    /\ inactive = <<>>
    /\ tk = [i \in Ids |-> NoTickable]
    /\ nextTickerId = 0
    /\ pending = <<>>
    /\ pc = "idle"
    /\ target = Epoch
    /\ last = NoLast
    /\ calls = 0
    /\ expected = Epoch                  \* the deltas of the advances, from zero
    /\ adv = NoAdv
    /\ hist = [i \in Ids |-> NoHist]
    /\ racer = NoRacer
    /\ lock = Free
    /\ ctx = NoContexts
    /\ sleeper = NoSleeper

\* mockClock.SinceCreated: m.Since(m.CreatedAt()) = m.Now().Sub(m.createdAt)
SinceCreated == advance - createdAt

\* the clock made with a start time, advanced by AdvanceBy, with timers
NextAtTime ==
    \/ \E d \in Durations : NewTimer(d)
    \/ \E d \in Durations : AdvanceBy(d)
    \/ AdvanceCheck
    \/ AdvanceTick
    \/ AdvanceEnd
    \/ \E k \in 1 .. MaxPending : Deliver(k)

SpecAtTime == InitAtTime /\ [][NextAtTime]_vars

\* ticker.enterState(tsExpired) called on a ticker of the clock, as the code
\* of the package may: nothing if the ticker is Expired; else the state is
\* assigned and the switch panics with errInvalidTransition
TickerEnterExpired(i) ==
    /\ UNCHANGED <<racer, lock, ctx, sleeper>>
    /\ pc = "idle"
    /\ calls < MaxCalls
    /\ calls' = calls + 1
    /\ Created(i) /\ tk[i].kind = "ticker"
    /\ SetReg(tickerEnterState(Reg, i, tsExpired))
    /\ last' = [NoLast EXCEPT !.op = "enterState", !.id = i, !.was = tk[i].state,
                              !.err = IF tk[i].state = tsExpired THEN NoErr
                                      ELSE errInvalidTransition]
    /\ hist' = Touched(hist, i)
    /\ UNCHANGED <<now, nStopped, dropsTicks, elapsed, nextTickerId, pc, target, expected, adv>>

\* tickers on the stopped clock, and the transition no call of the API makes
NextInternal ==
    \/ \E d \in TickerDurations : NewTicker(d)
    \/ \E i \in Ids : TickerStop(i)
    \/ \E i \in Ids, d \in TickerDurations : TickerReset(i, d)
    \/ \E i \in Ids : TickerEnterExpired(i)
    \/ \E t \in Targets : AdvanceTo(t)
    \/ AdvanceCheck
    \/ AdvanceTick
    \/ AdvanceEnd
    \/ \E k \in 1 .. MaxPending : Deliver(k)

SpecInternal == Init /\ [][NextInternal]_vars

\* ------------------------------------------------------------- the channels
\* the goroutines started for tickable i that have run up to their send
\* (t.c <- t.next of timer.tick, t.c <- at of ticker.tick)
AtSend(i) == hist[i].fired - Cardinality({k \in 1 .. Len(pending) : pending[k].id = i})

\* make(chan time.Time, 1) of newTicker, make(chan time.Time) of newTimer
ChanCap(i) == IF tk[i].kind = "ticker" THEN 1 ELSE 0

\* with no receiver, the sends beyond the capacity of the channel block: the
\* goroutines parked in their send, for good
Parked(i) == Max(AtSend(i) - ChanCap(i), 0)

\* ------------------------------------------------------------------ claims
Timers == {i \in Ids : Created(i) /\ tk[i].kind = "timer"}
Tickers == {i \in Ids : Created(i) /\ tk[i].kind = "ticker"}

\* an AdvanceTo / AdvanceBy call has just returned normally
Returned == last.op = "return"

\* C1: on a stopped clock the current time never decreases: no step of any
\* goroutine (a call, a step of an advance, a delivery goroutine) takes now
\* to an earlier time, so no Now() returns less than an earlier Now().
C1_NowNeverDecreases == [][now' >= now]_vars

\* C2: when an advance to t returns, no tickable is left Active with a next
\* tick time at or before t.
C2_NoDueTickableLeft ==
    Returned => \A i \in Ids : Created(i) => ~(tk[i].state = tsActive /\ tk[i].next <= last.t)

\* C3: within one advance the deliveries are dispatched in non-decreasing
\* order of fire time: a tick of the advance never dispatches a tickable
\* whose fire time is before that of the delivery dispatched before it.
C3_DispatchInFireOrder ==
    last.op = "tick" => (last.prevFire = NoTime \/ last.disp.fire >= last.prevFire)

\* C4: no tickable fires early or while it is not Active: every delivery is
\* dispatched for a tickable that was Active, with a fire time at or before
\* the target of the advance (or, outside an advance, the current time).
C4_NoEarlyFire ==
    last.disp.id # NoId =>
        /\ last.disp.was = tsActive
        /\ last.disp.fire <= (IF last.op = "tick" THEN target ELSE now)

\* C4, its case: an advance has dispatched a tickable while another one,
\* Active and due only after the target, has never been dispatched.
C4_Witness ==
    /\ last.op = "tick"
    /\ \E j \in Ids : /\ Created(j) /\ j # last.disp.id
                       /\ tk[j].state = tsActive /\ tk[j].next > target
                       /\ hist[j].fired = 0

\* C5: a Timer created with d > 0 at time T, and never stopped or reset, is
\* delivered at most once, and has been delivered once when an advance to a
\* target >= T + d returns (T + d is the next tick time it still has).
C5_TimerFiresExactlyOnce ==
    \A i \in Timers :
        (hist[i].pos /\ ~hist[i].touched) =>
            /\ hist[i].fired <= 1
            /\ (Returned /\ last.t >= tk[i].next) => hist[i].fired = 1

\* C6: without drop-ticks, a Ticker with period p > 0 created at time T, and
\* never stopped or reset, has had exactly n deliveries dispatched, carrying
\* T + p, ..., T + n * p, when the advances returned since its creation add
\* up to n * p.
C6_TickerFiresEveryPeriod ==
    (~dropsTicks /\ Returned) =>
        \A i \in Tickers :
            LET p == tk[i].d
                a == expected - hist[i].e0
            IN  (p > 0 /\ ~hist[i].touched /\ a % p = 0) =>
                    /\ hist[i].fired = a \div p
                    /\ hist[i].seqOk

\* C7: with drop-ticks, an advance to t that crosses one or more period
\* boundaries of an Active Ticker dispatches exactly one delivery for it,
\* carrying the last boundary <= t, and leaves its next tick time at the
\* first boundary after t.
C7_DropsTicksCollapses ==
    (dropsTicks /\ Returned) =>
        \A i \in Tickers :
            LET p == tk[i].d
                lb == hist[i].next0 + ((last.t - hist[i].next0) \div p) * p
            IN  (p > 0 /\ tk[i].state = tsActive /\ hist[i].next0 <= last.t) =>
                    /\ hist[i].inAdv = 1
                    /\ hist[i].lastAt = lb
                    /\ tk[i].next = lb + p

\* C8: an AdvanceTo(t) called with t before the current time, and an
\* AdvanceBy(d) called with d < 0, fails with ErrNotADelorean and changes
\* nothing.
C8_RewindFails ==
    [][(pc = "check" /\ pc' # "check" /\ adv.back) =>
           /\ last'.err = ErrNotADelorean
           /\ pc' = "idle"
           /\ UNCHANGED <<now, active, inactive, tk, nextTickerId, pending>>]_vars

\* C9: with timers and tickers registered (none of them stopped or reset),
\* right after an advance returns the current time is the starting time plus
\* the deltas of all the AdvanceBy calls so far (the t of an AdvanceTo(t)).
C9_NowIsSumOfDeltas ==
    (Returned /\ \A i \in Ids : ~hist[i].touched) => now = expected

\* C10: an AdvanceTo / AdvanceBy called while the clock is running panics: it
\* does not get past its check, move the clock or dispatch a delivery.
C10_AdvancePanicsWhileRunning ==
    adv.running => (pc \in {"idle", "check"} /\ ~Returned)

\* C11: the stop counter is never negative (so that the clock runs iff the
\* counter is 0): a Start() that fails with ErrClockIsRunning leaves the
\* counter at 0 and the clock running.
C11_StopCounterNotNegative ==
    /\ nStopped >= 0
    /\ (last.op = "Start" /\ last.err = ErrClockIsRunning) => IsRunning

\* C12: when Update() returns on a running clock the current time has moved
\* forward by the real time elapsed since the last sync, and no timer or
\* ticker (created with d > 0, never stopped or reset) is left Active with a
\* next tick time at or before the new time.
C12_UpdateDispatchesDue ==
    (last.op = "Update" /\ last.err = NoErr) =>
        /\ now = last.t
        /\ \A i \in Ids : (Created(i) /\ hist[i].pos /\ ~hist[i].touched) =>
                               ~(tk[i].state = tsActive /\ tk[i].next <= now)

\* C13: once Stop() has returned on an Active timer or ticker, and until it is
\* reset, no tick of an advance dispatches a delivery for it.
C13_StoppedNeverDispatched ==
    last.op = "tick" => ~hist[last.disp.id].stopped

\* C13, its case: an advance dispatches a tickable while another one, stopped
\* while it was Active and not reset since, has a next tick time at or before
\* the target.
C13_Witness ==
    /\ last.op = "tick"
    /\ \E j \in Ids : /\ Created(j) /\ j # last.disp.id
                       /\ hist[j].stopped /\ tk[j].next <= target

\* C14: Timer.Stop returns true iff the timer was Active right before the
\* call, and a Stop of a timer or ticker that is already Stopped returns
\* false / does nothing: the states, the next tick times and both lists of
\* the registry stay as they are.
C14_StopIdempotent ==
    last.op = "Stop" =>
        /\ tk[last.id].kind = "timer" => last.ret = (last.was = tsActive)
        /\ last.was = tsStopped => (~last.ret /\ last.same)

\* C14, its case: the only tickable, a timer, has been stopped while Active
\* and Stop has just been called on it again.
C14_Witness ==
    /\ last.op = "Stop" /\ last.ret = FALSE
    /\ nextTickerId = 1 /\ tk[0].kind = "timer"
    /\ hist[0].stopped /\ tk[0].state = tsStopped

\* C15: for a timer that is never reset, Stop and the advance that reaches
\* its fire time never both win, however they interleave: it never happens
\* that a Stop of the timer has returned true and a delivery has been
\* dispatched for it as well.
C15_StopOrFireNotBoth ==
    \A i \in Timers : ~hist[i].reset => ~(hist[i].stopped /\ hist[i].fired > 0)

\* C16: Timer.Reset(d) with d > 0 at time T returns true iff the timer was
\* Active right before the call and leaves it Active, in the active list,
\* with its next tick time at T + d; and the timer is delivered by the first
\* advance that reaches T + d: no advance to a target at or after T + d
\* returns while the timer, not touched since the reset, is undelivered.
C16_TimerResetRearms ==
    [][/\ \A i \in Ids, d \in Durations :
              (TimerReset(i, d) /\ d > 0) =>
                  /\ last'.ret = (tk[i].state = tsActive)
                  /\ tk'[i].state = tsActive
                  /\ get(active', i) /\ ~get(inactive', i)
                  /\ tk'[i].next = now + d
       /\ AdvanceEnd =>
              \A i \in Timers : hist[i].armed => tk[i].next > target]_vars

\* C17: Timer.Reset(d) with d <= 0 dispatches the timer's delivery within the
\* call, whatever the state of the timer was (Active, Expired or Stopped) and
\* for negative d as for d = 0.
C17_TimerResetFiresAtOnce ==
    [][\A i \in Ids, d \in Durations :
          (TimerReset(i, d) /\ d <= 0) => last'.disp.id = i]_vars

C19_TickerResetRearms ==
    [][/\ \A i \in Ids, d \in TickerDurations :
              (TickerReset(i, d) /\ d > 0) =>
                  /\ tk'[i].d = d
                  /\ tk'[i].next = now + d
                  /\ tk'[i].state = tsActive
                  /\ get(active', i) /\ ~get(inactive', i)
       /\ AdvanceEnd =>
              \A i \in Tickers : hist[i].armed => tk[i].next > target]_vars

\* C20: a callback or receiver triggered by a delivery may call into the
\* clock (Now here) while the advance that dispatched the delivery is still
\* in progress, and the advance runs to completion: an advance that has
\* dispatched a delivery, whose goroutine has run, never ends in a panic over
\* the clock's lock.
C20_ReentryCompletes ==
    ~(last.op = "panic" /\ last.prevFire # NoTime /\ pending = <<>>)

\* C21: an AdvanceTo / AdvanceBy (not a rewind) over timers and tickers of a
\* positive period always returns, with the clock at its target, even if no
\* goroutine ever receives from the channels of the timers and tickers it
\* fires: the goroutines parked in their sends do not hold it up.
PositivePeriods == \A i \in Tickers : tk[i].d > 0

Contexts == {c \in CtxIds : c < ctx.n /\ ctx.c[c].kind = "mock"}
Timed == {c \in Contexts : ctx.c[c].after # NoId}

\* no ancestor of the context is done (cancelled or expired)
RECURSIVE ParentLive(_)
ParentLive(c) ==
    LET p == ctx.c[c].parent
    IN  IF p = RootCtx THEN ctx.root = Nil ELSE ctx.c[p].err = Nil /\ ParentLive(p)

\* the context is left to its deadline: its cancel function has not been
\* called and its parent is not cancelled
NeverCancelled(c) == ctx.c[c].cancels = 0 /\ ParentLive(c)

\* the goroutine started for timer i has run (or none was started)
Ran(i) == \A k \in 1 .. Len(pending) : pending[k].id # i

C23_CauseReported ==
    \A c \in Contexts :
        (ctx.c[c].cause # NoCause /\ ctx.c[c].by = "timer") =>
            /\ Is(ctx.c[c].err, DeadlineExceeded)
            /\ Is(ctx.c[c].err, ctx.c[c].cause)

\* C24: the error of a deadline context changes at most once, from nil to a
\* terminal value: whatever comes after the first resolution (the timer
\* firing, the cancel function, the parent being cancelled, in any order and
\* any number of times) leaves the error as it is; Done is closed iff the
\* error is not nil, and it is closed once.
C24_ResolvedOnce ==
    [][/\ \A c \in DOMAIN ctx.c :
              ctx.c[c].err # Nil =>
                  (ctx'.c[c].err = ctx.c[c].err /\ ctx'.c[c].closes = ctx.c[c].closes)
       /\ \A c \in DOMAIN ctx'.c :
              /\ ctx'.c[c].closes <= 1
              /\ (ctx'.c[c].err # Nil) <=> (ctx'.c[c].closes = 1)]_vars

\* C24, its case: the cancel function has just been called on a context that
\* its timer had resolved, with the parent cancelled as well.
C24_Witness ==
    /\ last.op = "cancel"
    /\ ctx.root = Canceled
    /\ \E c \in Timed : /\ last.id = c /\ ctx.c[c].by = "timer" /\ ctx.c[c].cancels >= 1
                        /\ ctx.c[c].err = DeadlineExceeded

\* C25: making a deadline context with a deadline at or before the current
\* time (on a parent that is not done) resolves it within the call with
\* context.DeadlineExceeded and registers no timer with the clock: the
\* registry is as it was; and the cancel function returned does nothing: a
\* call of it leaves the error at context.DeadlineExceeded.
C25_PastDeadlineResolved ==
    /\ \A c \in Contexts : ctx.c[c].by = "create" => ctx.c[c].err = DeadlineExceeded
    /\ (last.op = "ContextWithDeadline" /\ ctx.c[last.id].kind = "mock"
            /\ last.t <= now /\ ParentLive(last.id)) =>
           /\ ctx.c[last.id].err = DeadlineExceeded /\ ctx.c[last.id].closes = 1
           /\ ctx.c[last.id].by = "create"
           /\ ctx.c[last.id].timer = NoId /\ ~last.ret /\ last.same
    /\ (last.op = "cancel" /\ ctx.c[last.id].by = "create") =>
           (ctx.c[last.id].err = DeadlineExceeded /\ last.same)

\* C25, its case: the cancel function of a context made with a deadline that
\* had passed has just been called, and the clock has never had a timer.
C25_Witness ==
    /\ last.op = "cancel"
    /\ ctx.c[last.id].by = "create" /\ ctx.c[last.id].cancels = 1
    /\ ctx.c[last.id].deadline < now
    /\ nextTickerId = 0

\* C26: a call of the cancel function of a deadline context that is not yet
\* resolved resolves it within the call with context.Canceled and releases
\* its timer; a timer that had not fired is then Stopped and off the active
\* list, no later advance dispatches it, and the error stays
\* context.Canceled.
C26_CancelStopsTimer ==
    /\ (last.op = "cancel" /\ last.id \in Timed /\ last.was = Nil) =>
           (ctx.c[last.id].by = "cancel" /\ ctx.c[last.id].err = Canceled)
    /\ \A c \in Timed : ctx.c[c].by = "cancel" =>
           /\ ctx.c[c].err = Canceled /\ ctx.c[c].closes = 1
           /\ ctx.c[c].timer = NoId
           /\ \A k \in 1 .. Len(active) : active[k] # ctx.c[c].after
           /\ hist[ctx.c[c].after].fired = 0 =>
                  /\ tk[ctx.c[c].after].state = tsStopped
                  /\ \E k \in 1 .. Len(inactive) : inactive[k] = ctx.c[c].after
           /\ last.op = "tick" => last.disp.id # ctx.c[c].after

\* C26, its case: an advance to the deadline of a context has returned after
\* the cancel function resolved the context, and its timer never fired.
C26_Witness ==
    /\ Returned
    /\ \E c \in Timed : /\ ctx.c[c].by = "cancel"
                        /\ ParentLive(c)
                        /\ last.t >= ctx.c[c].deadline
                        /\ hist[ctx.c[c].after].fired = 0
                        /\ ctx.c[c].err = Canceled

\* C27: a deadline context whose parent was cancelled before the deadline
\* was reached, and whose own cancel function was not called, never resolves
\* with context.DeadlineExceeded: its error is nil until the goroutine that
\* watches the parent has run and context.Canceled, the error of the parent,
\* from then on, through any later advance, with its timer released and off
\* the active list.
C27_ParentCancelled ==
    \A c \in Timed :
        (/\ ctx.c[c].parent = RootCtx /\ ctx.root = Canceled
         /\ ctx.rootAt < ctx.c[c].deadline
         /\ ctx.c[c].cancels = 0) =>
            /\ ctx.c[c].err \in {Nil, parentErr(ctx, RootCtx)}
            /\ ctx.c[c].err # Nil =>
                   /\ ctx.c[c].by = "parent"
                   /\ ctx.c[c].timer = NoId
                   /\ \A k \in 1 .. Len(active) : active[k] # ctx.c[c].after

\* the contexts made by context.WithCancel on a parent with an earlier deadline
Plain == {c \in CtxIds : c < ctx.n /\ ctx.c[c].kind = "cancel"}

\* the goroutine that watches the parent of c has something to do
WatchPending(c) == parentDone(ctx, ctx.c[c].parent) /\ ctx.c[c].err = Nil

\* nothing is left to run for c or a context above it: the goroutine of its
\* timer has run, and the goroutine that watches its parent has nothing to do
RECURSIVE Quiet(_)
Quiet(c) ==
    IF c = RootCtx THEN TRUE
    ELSE /\ ctx.c[c].after # NoId => Ran(ctx.c[c].after)
         /\ ~WatchPending(c)
         /\ Quiet(ctx.c[c].parent)

SleeperDispatched == last.disp.id # NoId /\ last.disp.id = sleeper.id

\* C29: a Sleep(d) with d > 0 called on the stopped clock at time T returns
\* only after an advance to T + d or later has dispatched its timer, for the
\* time T + d; it has returned once such an advance has returned and the
\* goroutine of the timer has run; and the Now() that the sleeper calls on
\* return reads T + d.
C29_SleepWakesAtDeadline ==
    (sleeper.d > 0 /\ sleeper.state # "none") =>
        /\ sleeper.state # "asleep" => hist[sleeper.id].fired = 1
        /\ SleeperDispatched =>
               /\ last.disp.fire = sleeper.T + sleeper.d
               /\ pc # "idle" => sleeper.T + sleeper.d <= target
        /\ (Returned /\ last.t >= sleeper.T + sleeper.d /\ Ran(sleeper.id)) =>
               sleeper.state # "asleep"
        /\ sleeper.state = "done" => sleeper.seen = sleeper.T + sleeper.d

\* C30: whenever the driving goroutine is between two calls (each of
\* NewTimer, NewTicker, Timer.Reset, Ticker.Reset, Stop and AdvanceTo has
\* returned), the active list is in ascending order of next tick time, so
\* that its first element is the Active tickable that is due first.
C30_ActiveListSorted ==
    pc = "idle" =>
        \A k \in 1 .. (Len(active) - 1) : tk[active[k]].next <= tk[active[k + 1]].next

\* C31: whenever the driving goroutine is between two calls, every tickable
\* that has been created is in exactly one of the two lists of the registry,
\* once, and it is in the active list exactly if its state is Active: a
\* Stopped or Expired tickable is in the inactive list.  (Each created
\* tickable is in the list of its state and in no other, and the two lists
\* together have as many elements as there are tickables: so none is there
\* twice, and nothing else is there.)
C31_OneListByState ==
    pc = "idle" =>
        /\ Len(active) + Len(inactive) = nextTickerId
        /\ \A i \in Ids :
               Created(i) => /\ get(active, i) <=> tk[i].state = tsActive
                             /\ get(inactive, i) <=> tk[i].state # tsActive

\* an Expired timer is in the inactive list while a timer that had expired
\* and was reset is back in the active list
C31_Witness ==
    /\ pc = "idle"
    /\ \E i, j \in Timers :
           /\ tk[i].state = tsExpired /\ get(inactive, i)
           /\ tk[j].state = tsActive /\ get(active, j)
           /\ hist[j].fired >= 1 /\ hist[j].reset

\* how many times tickable i is in the list s
Count(s, i) == Cardinality({k \in 1 .. Len(s) : s[k] = i})

\* C32: no two tickables of a clock have the same id, also when timers and
\* tickers are made by two goroutines at once: no id is in the lists of the
\* registry twice.
C32_IdsDistinct ==
    \A i \in Ids : Count(active, i) + Count(inactive, i) <= 1

\* C33: a tick that dispatches a delivery never runs with the write lock of
\* the clock held, on any path that fires a tickable: the advance, NewTimer
\* and NewTicker with d <= 0, Timer.Reset with d <= 0.
C33_DispatchOutsideLock ==
    last.disp.id # NoId => ~last.disp.held

\* the lock of the clock is held by a goroutine other than the driving one
HeldByAnother == lock \in {"racer", RLocked}

\* C34: the panic over the clock's lock is raised only for a re-entrant
\* acquisition: a call of the driving goroutine (AdvanceTo, NewTicker) never
\* panics with errClockLocked at a moment when it is another goroutine,
\* inside a Now of its own, that holds the lock.
C34_LockedPanicOnlyOnReentry ==
    last.err = errClockLocked => ~HeldByAnother

\* C35: an AdvanceTo / AdvanceBy comes to an end whatever tickables are
\* Active, a ticker made by NewTicker(d) with d <= 0 among them: with every
\* started goroutine scheduled at some point, the call returns (or panics
\* over a rewind) after finitely many deliveries.
C35_AdvanceTerminates == (pc = "check") ~> (pc = "idle")

\* C36: a Timer.Reset(0) of an Active timer dispatches one delivery for it
\* and leaves the timer Expired, in the inactive list, so that no advance
\* that follows (not even AdvanceBy(0)) finds it due a second time.
C36_ResetZeroFiresOnce ==
    [][\A i \in Ids :
           (TimerReset(i, 0) /\ tk[i].state = tsActive) =>
               /\ last'.disp.id = i
               /\ hist'[i].fired = Min(hist[i].fired + 1, FiredCap)
               /\ tk'[i].state = tsExpired
               /\ get(inactive', i) /\ ~get(active', i)]_vars

\* C37: tickables that are due at the same time are dispatched in the order
\* they were created in, at every fire time of an advance: when a tick of
\* the advance dispatches a tickable for a fire time, no tickable created
\* before it is left Active and due at that same time.
C37_TiesInCreationOrder ==
    (last.op = "tick" /\ last.disp.id # NoId) =>
        \A i \in Ids :
            (Created(i) /\ i < last.disp.id) =>
                ~(tk[i].state = tsActive /\ tk[i].next = last.disp.fire)

\* deadline context c has been made / is resolved / its watcher has returned
Mock(c) == c < ctx.n /\ ctx.c[c].kind = "mock"
Resolved(c) == Mock(c) /\ ctx.c[c].err # Nil
Gone(c) == Mock(c) /\ ctx.c[c].gone

\* C38: the goroutine that watches the parent of a deadline context does
\* not dangle: once the context is resolved, by its timer, by its cancel
\* function or at creation with a deadline that has passed, the goroutine
\* returns at some point; and when it takes the case of its parent on a
\* resolved context, the error and the done channel stay as they are.
\* (A resolved context stays resolved and a goroutine that has returned
\* stays so: hence "each resolved context has its watcher gone at some later
\* point" is "from some point on every resolved context has its watcher
\* gone".)
C38_WatcherNeverDangles ==
    /\ <>[](\A c \in CtxIds : Resolved(c) => Gone(c))
    /\ [][\A c \in CtxIds :
              /\ Resolved(c) => Resolved(c)'
              /\ Gone(c) => Gone(c)'
              /\ (WatchParent(c) /\ ctx.c[c].err # Nil) =>
                     /\ ctx'.c[c].err = ctx.c[c].err
                     /\ ctx'.c[c].closes = ctx.c[c].closes]_vars

\* the watcher of a context that its timer has resolved has returned, with
\* the parent not done
C38_Witness ==
    \E c \in CtxIds :
        Gone(c) /\ ctx.c[c].by = "timer" /\ ~parentDone(ctx, ctx.c[c].parent)

\* C39: on a stopped clock made with any start time, with no timer or
\* ticker registered, SinceCreated() is 0 right after the creation and,
\* between calls, the sum of the deltas of the AdvanceBy calls that have
\* returned.
C39_SinceCreatedIsSum ==
    (pc = "idle" /\ nextTickerId = 0) => SinceCreated = expected - Epoch

\* C40: a ticker is Active or Stopped in every state, never Expired: an
\* attempt to take a ticker to Expired fails with the invalid-transition
\* error and leaves the state of the ticker as it was.
C40_TickerNeverExpired ==
    /\ \A i \in Tickers : tk[i].state \in {tsActive, tsStopped}
    /\ last.op = "enterState" =>
           /\ last.err = errInvalidTransition
           /\ tk[last.id].state = last.was
====
